---- MODULE Spec2Model ----
(***************************************************************************)
(* Verification model of the content-creator publishing pipeline:          *)
(*   - the publishing orchestrator (PublisherService) and the post-level   *)
(*     retry/reschedule logic of DatabaseService;                          *)
(*   - the iterative refinement loop of ContentGenerationService;          *)
(*   - retryWithBackoff, the AdapterRegistry cache, the scheduled job and  *)
(*     the research step of WorkflowService.                               *)
(***************************************************************************)
EXTENDS Integers, Sequences, FiniteSets, TLC

\* ------------------------------------------------------------------------
\* Bounds of the model
\* ------------------------------------------------------------------------
MaxCeiling == 2

\* posts.max_retries INTEGER DEFAULT 3
DefaultMaxRetries == 3
MaxDay == 1
MaxRecords == 2
MaxAttempts == 2
MaxIterationsInput == 7

Posts == {1, 2, 3}
Projects == <<"A", "B">>
ProjectNames == {"A", "B"}

Max(a, b) == IF a >= b THEN a ELSE b
Min(a, b) == IF a <= b THEN a ELSE b

\* posts.project_id: post 1 belongs to project A, posts 2 and 3 to project B
projectOf(p) == IF p = 1 THEN "A" ELSE "B"

Zones == {"UTC", "Europe/Berlin"}
Drafts == {"d1", "d2"}

VARIABLES
  \* posts table
  status, retryCount, maxRetries, publishDate, errorMessage, publishedUrl,
  savedContent, savedIterations,
  \* environment of the process
  today, zone, attempts,
  \* one orchestrator run (processAllPosts) and its current attempt
  pc, dryRun, projQueue, postQueue, err, thrown, pre, gen, saveIdx, readPost,
  marked,
  \* one refinement run (generateContentIteratively): its inputs and locals
  rpc, maxIterations, minScore, research, iterations, currentContent,
  currentRating, i, decision, llm, result

postVars == <<status, retryCount, maxRetries, publishDate, errorMessage,
              publishedUrl, savedContent, savedIterations>>
envVars == <<today, zone, attempts>>
runVars == <<pc, dryRun, projQueue, postQueue, err, thrown, pre, gen, saveIdx,
             readPost, marked>>
refineVars == <<rpc, maxIterations, minScore, research, iterations,
                currentContent, currentRating, i, decision, llm, result>>

VARIABLES
  \* one call of retryWithBackoff: its configuration, locals and outcome
  fullConfig, attempt, fnCalls, delays, lastError, rst, raised, verdicts,
  \* AdapterRegistry: the static cache, the adapters constructed so far and
  \* the getAdapter calls in progress
  adapters, created, authCalls, authenticated, callers, handed, clears,
  \* scheduled runs of the publishing job in one process
  runs, publishCalls,
  \* one call of WorkflowService.performResearch: its locals
  rsPc, researchPlan, qIdx, allResults, mergeIdx, mergedResearch

retryVars == <<fullConfig, attempt, fnCalls, delays, lastError, rst, raised,
               verdicts>>
registryVars == <<adapters, created, authCalls, authenticated, callers, handed,
                  clears>>
schedulerVars == <<runs, publishCalls>>
researchVars == <<rsPc, researchPlan, qIdx, allResults, mergeIdx, mergedResearch>>
auxVars == <<retryVars, registryVars, schedulerVars, researchVars>>
vars == <<postVars, envVars, runVars, refineVars, auxVars>>

NoResult == [content |-> "none", iterations |-> <<>>]
\* invocations of runPublishingJob that can be live in the process at once
Jobs == {1, 2}
NoJob == [pc |-> "idle", projQueue |-> <<>>, postQueue |-> <<>>]

\* concurrent callers of AdapterRegistry.getAdapter in one process
Callers == {1, 2}
NoCaller == [pc |-> "idle", config |-> <<>>, inst |-> 0, epoch |-> 0, error |-> <<>>]
NoError == [cls |-> "none", msg |-> <<>>]
NoCall == [op |-> "none", calls |-> 0, kind |-> "none"]
NoResearch == [query |-> <<>>, results |-> <<>>]
NoErr == [kind |-> "none", msg |-> <<>>]
NoDraft == [title |-> "", words |-> 0, heading |-> FALSE, tags |-> 0]
NoGen == [content |-> "none", n |-> 0, draft |-> NoDraft]
NoPre == [retryCount |-> 0, publishDate |-> 0, status |-> "none",
          publishedUrl |-> "none", iterations |-> <<>>]
NoRead == [retryCount |-> 0, maxRetries |-> 0, publishDate |-> 0]

\* ------------------------------------------------------------------------
\* Date arithmetic of markPostFailed (hours since 00:00 UTC of day 0)
\* ------------------------------------------------------------------------
\* new Date('YYYY-MM-DD'): a date-only string is midnight UTC
ParseDate(d) == d * 24

\* Date.prototype.toISOString().split('T')[0]: the UTC calendar day
ToISODate(t) == t \div 24

\* offset of local time from UTC at the UTC instant t. Day 0 of the model is
\* the day of the change to summer time: Europe/Berlin is UTC+1 until 01:00
\* UTC of day 0 and UTC+2 from then on
UtcOffset(z, t) ==
  IF z = "UTC" THEN 0 ELSE IF t >= 1 THEN 2 ELSE 1

\* offset that applies to the local wall-clock time w (03:00 local time of
\* day 0 is the first instant of summer time)
WallOffset(z, w) ==
  IF z = "UTC" THEN 0 ELSE IF w >= 3 THEN 2 ELSE 1

\* nextDate.setDate(nextDate.getDate() + 1): one calendar day later on the
\* LOCAL clock, same local time of day
SetDatePlusOne(z, t) ==
  LET w == t + UtcOffset(z, t) + 24 IN w - WallOffset(z, w)

\* markPostFailed: the new publish_date
NextPublishDate(z, d) == ToISODate(SetDatePlusOne(z, ParseDate(d)))

\* ------------------------------------------------------------------------
\* DatabaseService
\* ------------------------------------------------------------------------
\* off by one in the retry test: newRetryCount <= post.maxRetries
ShouldRetryInclusive(newRetryCount, ceiling) == newRetryCount <= ceiling

\* markPostFailed: const shouldRetry = newRetryCount < post.maxRetries
ShouldRetry(newRetryCount, ceiling) == newRetryCount < ceiling

\* getPendingPosts: the filter of the query
IsDue(p, proj) ==
  /\ status[p] = "pending"
  /\ publishDate[p] <= today
  /\ projectOf(p) = proj

\* getPendingPosts: ORDER BY publish_date ASC, retry_count ASC
Precedes(p, q) ==
  \/ publishDate[p] < publishDate[q]
  \/ publishDate[p] = publishDate[q] /\ retryCount[p] <= retryCount[q]

PendingLists(proj) ==
  LET due == {p \in Posts : IsDue(p, proj)}
      n == Cardinality(due)
  IN {q \in [1..n -> due] :
        /\ \A j, k \in 1..n : j # k => q[j] # q[k]
        /\ \A j, k \in 1..n : j < k => Precedes(q[j], q[k])}

\* getActiveProjects(projectFilter)
ActiveProjects(filter) ==
  IF filter = "all" THEN Projects ELSE <<filter>>

cur == Head(postQueue)

\* ------------------------------------------------------------------------
\* Errors the collaborators raise (message as the list of its parts)
\* ------------------------------------------------------------------------
DbError == [kind |-> "transient", msg |-> <<"Failed to update post">>]
GenerationErrors ==
  { [kind |-> "transient", msg |-> <<"Content generation failed", "ETIMEDOUT">>] }
IterationError == [kind |-> "transient", msg |-> <<"Failed to save post iteration">>]
\* throw new Error(`Content validation failed: ${validation.issues.join(', ')}`)
ValidationError(issues) ==
  [kind |-> "logic", msg |-> <<"Content validation failed">> \o issues]
AdapterErrors ==
  { [kind |-> "fatal", msg |-> <<"Failed to load adapter">>] }
PublishErrors ==
  { [kind |-> "transient", msg |-> <<"ETIMEDOUT">>],
    [kind |-> "fatal", msg |-> <<"401">>] }

\* publishContent: catch (error) { throw new Error(`Publishing failed: ${...}`) }
WrapPublish(e) == [kind |-> e.kind, msg |-> <<"Publishing failed">> \o e.msg]

\* ------------------------------------------------------------------------
\* WorkflowService.validateContent
\* ------------------------------------------------------------------------
\* validateContent(content: Content, minWords: number = 300)
MinWords == 300

\* what generatePostContent returns, as far as validateContent looks at it:
\* the title, body.split(/\s+/).length, whether the body holds '##' or '<h2',
\* and metadata.tags.length
SampleContents ==
  { [title |-> "T", words |-> 300, heading |-> TRUE, tags |-> 1],
    [title |-> "", words |-> 300, heading |-> TRUE, tags |-> 1],
    [title |-> "T", words |-> 299, heading |-> TRUE, tags |-> 1],
    [title |-> "T", words |-> 300, heading |-> FALSE, tags |-> 1],
    [title |-> "T", words |-> 300, heading |-> TRUE, tags |-> 0] }

\* a validateContent without the check of the tags
ValidateContentWithoutTags(content) ==
  (IF content.title = "" THEN <<"Title is missing">> ELSE <<>>)
  \o (IF content.words < MinWords THEN <<"Body is too short">> ELSE <<>>)
  \o (IF ~content.heading
        THEN <<"Content lacks proper sections/headings">> ELSE <<>>)

\* validateContent: the issues; valid == issues.length === 0
ValidateContent(content) ==
  (IF content.title = "" THEN <<"Title is missing">> ELSE <<>>)
  \o (IF content.words < MinWords THEN <<"Body is too short">> ELSE <<>>)
  \o (IF ~content.heading
        THEN <<"Content lacks proper sections/headings">> ELSE <<>>)
  \o (IF content.tags = 0 THEN <<"No tags provided">> ELSE <<>>)

\* ------------------------------------------------------------------------
\* Initial state: every post as created (pending, retry_count 0), no run
\* ------------------------------------------------------------------------
\* no refinement run is being followed
RefineIdle ==
  /\ rpc = "idle"
  /\ maxIterations = 0
  /\ minScore = 0
  /\ research = FALSE
  /\ iterations = <<>>
  /\ currentContent = "none"
  /\ currentRating = 0
  /\ i = 0
  /\ decision = "none"
  /\ llm = NoCall
  /\ result = NoResult

\* no call of retryWithBackoff is being followed
RetryIdle ==
  /\ fullConfig = [maxRetries |-> 0]
  /\ attempt = 0
  /\ fnCalls = 0
  /\ delays = <<>>
  /\ lastError = NoError
  /\ rst = "idle"
  /\ raised = NoError
  /\ verdicts = {}

\* private static adapters = new Map(), and no getAdapter call
RegistryIdle ==
  /\ adapters = {}
  /\ created = <<>>
  /\ authCalls = <<>>
  /\ authenticated = {}
  /\ callers = [c \in Callers |-> NoCaller]
  /\ handed = <<>>
  /\ clears = 0

\* no scheduled run
SchedulerIdle ==
  /\ runs = [r \in Jobs |-> NoJob]
  /\ publishCalls = [p \in Posts |-> 0]

\* no call of performResearch is being followed
ResearchIdle ==
  /\ rsPc = "idle"
  /\ researchPlan = <<>>
  /\ qIdx = 0
  /\ allResults = <<>>
  /\ mergeIdx = 0
  /\ mergedResearch = NoResearch

Init ==
  /\ RefineIdle
  /\ RetryIdle
  /\ RegistryIdle
  /\ SchedulerIdle
  /\ ResearchIdle
  /\ status = [p \in Posts |-> "pending"]
  /\ retryCount = [p \in Posts |-> 0]
  /\ \E c \in 0..MaxCeiling :
       maxRetries = [q \in Posts |-> IF q = 1 THEN c ELSE DefaultMaxRetries]
  /\ publishDate = [p \in Posts |-> 0]
  /\ errorMessage = [p \in Posts |-> <<>>]
  /\ publishedUrl = [p \in Posts |-> "none"]
  /\ savedContent = [p \in Posts |-> "none"]
  /\ savedIterations = [p \in Posts |-> <<>>]
  /\ today = 0
  /\ zone \in Zones
  /\ attempts = 0
  /\ pc = "idle"
  /\ dryRun = FALSE
  /\ projQueue = <<>>
  /\ postQueue = <<>>
  /\ err = NoErr
  /\ thrown = FALSE
  /\ pre = NoPre
  /\ gen = NoGen
  /\ saveIdx = 0
  /\ readPost = NoRead
  /\ marked = {}

\* the attempt-local variables as they are between two attempts
ResetAttempt ==
  /\ err' = NoErr
  /\ thrown' = FALSE
  /\ pre' = NoPre
  /\ gen' = NoGen
  /\ saveIdx' = 0
  /\ readPost' = NoRead

\* processAllPosts: the for loop over the projects moves on
AfterProject ==
  /\ projQueue' = Tail(projQueue)
  /\ postQueue' = <<>>
  /\ pc' = IF Tail(projQueue) = <<>> THEN "idle" ELSE "project"

\* the clock passes midnight UTC
NextDay ==
  /\ today < MaxDay
  /\ today' = today + 1
  /\ UNCHANGED <<postVars, zone, attempts, runVars>>
  /\ UNCHANGED <<refineVars, auxVars>>

\* processAllPosts(projectFilter, dryRun) up to the first project
processAllPosts ==
  /\ pc = "idle"
  /\ \E filter \in {"all"} \cup ProjectNames, dry \in BOOLEAN :
       /\ dryRun' = dry
       /\ \/ /\ projQueue' = ActiveProjects(filter)
             /\ pc' = "project"
          \/ \* getActiveProjects throws: the run ends
             /\ projQueue' = <<>>
             /\ pc' = "idle"
  /\ postQueue' = <<>>
  /\ marked' = {}
  /\ ResetAttempt
  /\ UNCHANGED <<postVars, envVars>>
  /\ UNCHANGED <<refineVars, auxVars>>

\* processProjectPosts: getPendingPosts(project.id)
processProjectPosts ==
  /\ pc = "project"
  /\ \/ /\ \E q \in PendingLists(Head(projQueue)) :
            IF q = <<>>
              THEN AfterProject
              ELSE /\ postQueue' = q
                   /\ pc' = "post"
                   /\ UNCHANGED projQueue
     \/ \* the query fails: caught and logged, the project is skipped
        /\ AfterProject
  /\ UNCHANGED <<envVars, postVars, dryRun, err, thrown, pre, gen, saveIdx, readPost>>
  /\ UNCHANGED marked
  /\ UNCHANGED <<refineVars, auxVars>>

\* ------------------------------------------------------------------------
\* processPost: one attempt on the post at the head of the fetched list
\* ------------------------------------------------------------------------
\* a call inside the try block throws: control goes to the catch block
Throw(e) ==
  /\ err' = e
  /\ pc' = "catch"

\* a call inside the try block returns
Goto(next) ==
  /\ pc' = next
  /\ UNCHANGED err

\* await this.db.markPostProcessing(post.id)
markPostProcessing ==
  /\ pc = "post"
  /\ pre' = [retryCount |-> retryCount[cur], publishDate |-> publishDate[cur],
             status |-> status[cur], publishedUrl |-> publishedUrl[cur],
             iterations |-> savedIterations[cur]]
  /\ \/ /\ status' = [status EXCEPT ![cur] = "processing"]
        /\ marked' = marked \cup {cur}
        /\ Goto("generate")
     \/ /\ Throw(DbError)
        /\ UNCHANGED <<status, marked>>
  /\ attempts < MaxAttempts
  /\ attempts' = attempts + 1
  /\ UNCHANGED <<today, zone, retryCount, maxRetries, publishDate, errorMessage, publishedUrl,
                 savedContent, savedIterations, dryRun, projQueue, postQueue,
                 thrown, gen, saveIdx, readPost>>
  /\ UNCHANGED <<refineVars, auxVars>>

\* workflow.generatePostContent, then workflow.validateContent
generatePostContent ==
  /\ pc = "generate"
  /\ \/ \E n \in 1..MaxRecords, c \in SampleContents :
          /\ gen' = [content |-> "content", n |-> n, draft |-> c]
          /\ LET validation == ValidateContent(c)
             IN IF validation = <<>>
                  THEN Goto("images")
                  ELSE Throw(ValidationError(validation))
     \/ \E e \in GenerationErrors :
          /\ Throw(e)
          /\ UNCHANGED gen
  /\ UNCHANGED <<envVars, postVars, dryRun, projQueue, postQueue, thrown, pre, saveIdx,
                 readPost>>
  /\ UNCHANGED marked
  /\ UNCHANGED <<refineVars, auxVars>>

\* imageService.enhanceContentWithImages: returns the content unchanged when
\* the image search fails, never throws
enhanceContentWithImages ==
  /\ pc = "images"
  /\ Goto("save")
  /\ UNCHANGED <<envVars, postVars, dryRun, projQueue, postQueue, thrown, pre, gen,
                 saveIdx, readPost>>
  /\ UNCHANGED marked
  /\ UNCHANGED <<refineVars, auxVars>>

\* await this.db.savePostContent(post.id, content)
savePostContent ==
  /\ pc = "save"
  /\ \/ /\ savedContent' = [savedContent EXCEPT ![cur] = gen.content]
        /\ Goto("deleteIterations")
     \/ /\ Throw(DbError)
        /\ UNCHANGED savedContent
  /\ UNCHANGED <<envVars, status, retryCount, maxRetries, publishDate, errorMessage,
                 publishedUrl, savedIterations, dryRun, projQueue, postQueue,
                 thrown, pre, gen, saveIdx, readPost>>
  /\ UNCHANGED marked
  /\ UNCHANGED <<refineVars, auxVars>>

\* await this.db.deletePostIterations(post.id): a failed delete is logged and
\* not thrown
deletePostIterations ==
  /\ pc = "deleteIterations"
  /\ \/ /\ savedIterations' = [savedIterations EXCEPT ![cur] = <<>>]
     \/ /\ UNCHANGED savedIterations
  /\ saveIdx' = 1
  /\ pc' = "saveIteration"
  /\ UNCHANGED <<envVars, status, retryCount, maxRetries, publishDate, errorMessage,
                 publishedUrl, savedContent, dryRun, projQueue, postQueue, err,
                 thrown, pre, gen, readPost>>
  /\ UNCHANGED marked
  /\ UNCHANGED <<refineVars, auxVars>>

\* a pipeline that publishes in dry-run mode too
AfterSaveAlwaysPublish(dry) == "getAdapter"

\* if (dryRun) { updatePost(post.id, { status: 'pending' }) } else { publishContent }
AfterSave(dry) == IF dry THEN "dryRun" ELSE "getAdapter"

\* an insert into a post_iterations table without the UNIQUE constraint
InsertAllowedWithoutUnique(rows, iterationNumber) == TRUE

\* post_iterations: UNIQUE (post_id, iteration_number); rows are the
\* iteration numbers stored for the post
InsertAllowed(rows, iterationNumber) ==
  \A k \in 1..Len(rows) : rows[k] # iterationNumber

\* for (const iteration of iterations) await this.db.savePostIteration(...)
savePostIteration ==
  /\ pc = "saveIteration"
  /\ \/ /\ InsertAllowed(savedIterations[cur], saveIdx)
        /\ savedIterations' =
             [savedIterations EXCEPT ![cur] = Append(@, saveIdx)]
        /\ saveIdx' = saveIdx + 1
        /\ Goto(IF saveIdx < gen.n THEN "saveIteration" ELSE AfterSave(dryRun))
     \/ /\ Throw(IterationError)
        /\ UNCHANGED <<savedIterations, saveIdx>>
  /\ UNCHANGED <<envVars, status, retryCount, maxRetries, publishDate, errorMessage,
                 publishedUrl, savedContent, dryRun, projQueue, postQueue,
                 thrown, pre, gen, readPost>>
  /\ UNCHANGED marked
  /\ UNCHANGED <<refineVars, auxVars>>

\* dry run: await this.db.updatePost(post.id, { status: 'pending' })
dryRunUpdate ==
  /\ pc = "dryRun"
  /\ \/ /\ status' = [status EXCEPT ![cur] = "pending"]
        /\ Goto("done")
     \/ /\ Throw(DbError)
        /\ UNCHANGED status
  /\ UNCHANGED <<envVars, retryCount, maxRetries, publishDate, errorMessage, publishedUrl,
                 savedContent, savedIterations, dryRun, projQueue, postQueue,
                 thrown, pre, gen, saveIdx, readPost>>
  /\ UNCHANGED marked
  /\ UNCHANGED <<refineVars, auxVars>>

\* publishContent: const adapter = await AdapterRegistry.getAdapter(project)
getAdapter ==
  /\ pc = "getAdapter"
  /\ \/ Goto("publish")
     \/ \E e \in AdapterErrors : Throw(WrapPublish(e))
  /\ UNCHANGED <<envVars, postVars, dryRun, projQueue, postQueue, thrown, pre, gen,
                 saveIdx, readPost>>
  /\ UNCHANGED marked
  /\ UNCHANGED <<refineVars, auxVars>>

\* publishContent: const result = await adapter.publish(content, project)
publish ==
  /\ pc = "publish"
  /\ \/ \* result.success && result.url: the content is on the platform
        /\ publishCalls' = [publishCalls EXCEPT ![cur] = @ + 1]
        /\ Goto("markPublished")
     \/ \E e \in PublishErrors :
          /\ Throw(WrapPublish(e))
          /\ UNCHANGED publishCalls
  /\ UNCHANGED <<envVars, postVars, dryRun, projQueue, postQueue, thrown, pre, gen,
                 saveIdx, readPost>>
  /\ UNCHANGED marked
  /\ UNCHANGED <<refineVars, retryVars, registryVars, researchVars, runs>>

\* publishContent: await this.db.markPostPublished(post.id, result.url, content)
\* (error_message: undefined is dropped from the update)
markPostPublished ==
  /\ pc = "markPublished"
  /\ \/ /\ status' = [status EXCEPT ![cur] = "published"]
        /\ publishedUrl' = [publishedUrl EXCEPT ![cur] = "url"]
        /\ savedContent' = [savedContent EXCEPT ![cur] = gen.content]
        /\ Goto("done")
     \/ /\ Throw(WrapPublish(DbError))
        /\ UNCHANGED <<status, publishedUrl, savedContent>>
  /\ UNCHANGED <<envVars, retryCount, maxRetries, publishDate, errorMessage,
                 savedIterations, dryRun, projQueue, postQueue, thrown, pre, gen,
                 saveIdx, readPost>>
  /\ UNCHANGED marked
  /\ UNCHANGED <<refineVars, auxVars>>

\* catch block, markPostFailed: const post = await this.getPostById(postId)
getPostById ==
  /\ pc = "catch"
  /\ \/ /\ readPost' = [retryCount |-> retryCount[cur],
                         maxRetries |-> maxRetries[cur],
                         publishDate |-> publishDate[cur]]
        /\ pc' = "markFailed"
        /\ UNCHANGED thrown
     \/ \* the read fails: markPostFailed throws out of processPost
        /\ thrown' = TRUE
        /\ pc' = "done"
        /\ UNCHANGED readPost
  /\ UNCHANGED <<envVars, postVars, dryRun, projQueue, postQueue, err, pre, gen, saveIdx>>
  /\ UNCHANGED marked
  /\ UNCHANGED <<refineVars, auxVars>>

\* markPostFailed: the retry decision and the update
markPostFailed ==
  /\ pc = "markFailed"
  /\ \/ LET newRetryCount == readPost.retryCount + 1
            shouldRetry == ShouldRetry(newRetryCount, readPost.maxRetries)
        IN /\ status' = [status EXCEPT ![cur] =
                           IF shouldRetry THEN "pending" ELSE "failed"]
           /\ retryCount' = [retryCount EXCEPT ![cur] = newRetryCount]
           /\ errorMessage' = [errorMessage EXCEPT ![cur] = err.msg]
           /\ publishDate' = [publishDate EXCEPT ![cur] =
                 IF shouldRetry
                   THEN NextPublishDate(zone, readPost.publishDate)
                   ELSE @]
           /\ UNCHANGED thrown
     \/ \* the update fails: markPostFailed throws out of processPost
        /\ thrown' = TRUE
        /\ UNCHANGED <<status, retryCount, errorMessage, publishDate>>
  /\ pc' = "done"
  /\ UNCHANGED <<envVars, maxRetries, publishedUrl, savedContent, savedIterations,
                 dryRun, projQueue, postQueue, err, pre, gen, saveIdx, readPost>>
  /\ UNCHANGED marked
  /\ UNCHANGED <<refineVars, auxVars>>

\* processProjectPosts: the attempt is over; the loop takes the next post, or
\* the catch of processProjectPosts ends the project when processPost threw
nextPost ==
  /\ pc = "done"
  /\ IF thrown \/ Tail(postQueue) = <<>>
       THEN AfterProject
       ELSE /\ postQueue' = Tail(postQueue)
            /\ pc' = "post"
            /\ UNCHANGED projQueue
  /\ ResetAttempt
  /\ UNCHANGED <<postVars, envVars, dryRun>>
  /\ UNCHANGED marked
  /\ UNCHANGED <<refineVars, auxVars>>

\* ------------------------------------------------------------------------
\* ContentGenerationService.generateContentIteratively
\* ------------------------------------------------------------------------
\* const MAX_SAFETY_ITERATIONS = 6
MAX_SAFETY_ITERATIONS == 6

\* rateContent, catch: score: 6
RatingFailedScore == 6

\* rateContent: score: rating.score || 5
RatingMissingScore == 5

\* what the rating call gives: a failure, or a parsed reply with its score
\* (0 stands for a reply without a usable score)
RaterReplies ==
  {[ok |-> FALSE, score |-> 0]} \cup {[ok |-> TRUE, score |-> s] : s \in {0} \cup 5..9}

\* what the judgment call gives
JudgeReplies == {"continue", "stop", "error"}

\* minQualityScore values the runs are followed for
TargetScores == {6, 8}

\* a rateContent whose catch block returns the score of a missing score
RateScoreFailedAsMissing(reply) ==
  IF ~reply.ok THEN RatingMissingScore
  ELSE IF reply.score = 0 THEN RatingMissingScore
  ELSE reply.score

\* rateContent: the score of the returned QualityRating
RateScore(reply) ==
  IF ~reply.ok THEN RatingFailedScore
  ELSE IF reply.score = 0 THEN RatingMissingScore
  ELSE reply.score

\* a judgment that only stops on a failed call
ShouldContinueIgnoringStop(reply, iterationNumber, maxIter) ==
  IF reply = "error" THEN iterationNumber < maxIter ELSE TRUE

\* decideContinueIteration: shouldContinue
ShouldContinue(reply, iterationNumber, maxIter) ==
  IF reply = "error" THEN iterationNumber < maxIter ELSE reply # "stop"

\* the loop bounded by maxIterations alone, without the safety limit
LoopLimitUncapped(maxIter) == maxIter

\* for (let i = 2; i <= Math.min(maxIterations, MAX_SAFETY_ITERATIONS); i++)
LoopLimit(maxIter) == Min(maxIter, MAX_SAFETY_ITERATIONS)

\* the loop body without the test of currentResearch
CanImproveUnchecked(n, maxIter, hasResearch) == n <= Min(maxIter, MAX_SAFETY_ITERATIONS)

\* the loop test and if (!currentResearch) break: an improvement round starts
CanImprove(n, maxIter, hasResearch) == n <= LoopLimit(maxIter) /\ hasResearch

\* the target test with > in place of >=
MeetsTargetStrict(score, target) == score > target

\* if (currentRating.score >= minScore)
MeetsTarget(score, target) == score >= target

\* the record numbered from 0
IterationRecordZeroBased(n, content, score) ==
  [iteration_number |-> n - 1, content |-> content, score |-> score]

\* iterations.push({ iteration_number: i, content, rating })
IterationRecord(n, content, score) ==
  [iteration_number |-> n, content |-> content, score |-> score]

\* the content of the best-scoring record returned in place of the last
BestScoredContent(content, its) ==
  LET best == CHOOSE k \in 1..Len(its) :
                \A m \in 1..Len(its) : its[k].score >= its[m].score
  IN its[best].content

\* return { content: currentContent, iterations }: the content returned
FinalContent(content, its) == content

\* kinds of failure of this.client.chat.completions.create
LlmErrorKinds == {"transient", "fatal"}

\* one LLM call of the service: a single await of
\* this.client.chat.completions.create inside try/catch, so the completion
\* endpoint is invoked once whatever the outcome (kind "none": it answered)
LlmCall(op, kind) == [op |-> op, calls |-> 1, kind |-> kind]

\* the posts as created and no orchestrator run
PipelineIdle ==
  /\ status = [p \in Posts |-> "pending"]
  /\ retryCount = [p \in Posts |-> 0]
  /\ maxRetries = [p \in Posts |-> DefaultMaxRetries]
  /\ publishDate = [p \in Posts |-> 0]
  /\ errorMessage = [p \in Posts |-> <<>>]
  /\ publishedUrl = [p \in Posts |-> "none"]
  /\ savedContent = [p \in Posts |-> "none"]
  /\ savedIterations = [p \in Posts |-> <<>>]
  /\ today = 0
  /\ zone = "UTC"
  /\ attempts = 0
  /\ pc = "idle"
  /\ dryRun = FALSE
  /\ projQueue = <<>>
  /\ postQueue = <<>>
  /\ err = NoErr
  /\ thrown = FALSE
  /\ pre = NoPre
  /\ gen = NoGen
  /\ saveIdx = 0
  /\ readPost = NoRead
  /\ marked = {}

\* a refinement run is called with these inputs
InitRefine ==
  /\ rpc = "start"
  /\ maxIterations \in 0..MaxIterationsInput
  /\ minScore \in TargetScores
  /\ research \in BOOLEAN
  /\ iterations = <<>>
  /\ currentContent = "none"
  /\ currentRating = 0
  /\ i = 0
  /\ decision = "none"
  /\ llm = NoCall
  /\ result = NoResult
  /\ RetryIdle
  /\ RegistryIdle
  /\ SchedulerIdle
  /\ ResearchIdle
  /\ PipelineIdle

\* return { content: currentContent, iterations }
Return(its) ==
  /\ result' = [content |-> FinalContent(currentContent, its),
                iterations |-> its]
  /\ rpc' = "returned"

\* iteration 1: currentContent = await this.generateContent(request, language)
generateContent ==
  /\ rpc = "start"
  /\ \/ \E d \in Drafts :
          /\ currentContent' = d
          /\ i' = 1
          /\ rpc' = "rate"
          /\ llm' = LlmCall("generate", "none")
     \/ \* the call throws: the run fails
        \E k \in LlmErrorKinds :
          /\ rpc' = "threw"
          /\ llm' = LlmCall("generate", k)
          /\ UNCHANGED <<currentContent, i>>
  /\ UNCHANGED <<maxIterations, minScore, research, iterations, currentRating,
                 decision, result>>
  /\ UNCHANGED <<postVars, envVars, runVars, auxVars>>

\* currentRating = await this.rateContent(...); iterations.push(...); then the
\* test of the score against minScore
rateContent ==
  /\ rpc = "rate"
  /\ \E reply \in RaterReplies :
       LET score == RateScore(reply)
           its == Append(iterations, IterationRecord(i, currentContent, score))
       IN /\ currentRating' = score
          /\ iterations' = its
          /\ llm' = LlmCall("rate", IF reply.ok THEN "none" ELSE "transient")
          /\ IF MeetsTarget(score, minScore)
               THEN /\ Return(its)
                    /\ UNCHANGED i
               ELSE /\ UNCHANGED result
                    /\ IF i = 1
                         THEN /\ i' = 2
                              /\ rpc' = "loop"
                         ELSE /\ rpc' = "decide"
                              /\ UNCHANGED i
  /\ UNCHANGED <<maxIterations, minScore, research, currentContent, decision>>
  /\ UNCHANGED <<postVars, envVars, runVars, auxVars>>

\* the loop test, the test of currentResearch and
\* currentContent = await this.improveContent(...)
improveContent ==
  /\ rpc = "loop"
  /\ IF CanImprove(i, maxIterations, research)
       THEN \/ \E d \in Drafts :
                 /\ currentContent' = d
                 /\ rpc' = "rate"
                 /\ llm' = LlmCall("improve", "none")
                 /\ UNCHANGED result
            \/ \* the call throws: the run fails
               \E k \in LlmErrorKinds :
                 /\ rpc' = "threw"
                 /\ llm' = LlmCall("improve", k)
                 /\ UNCHANGED <<currentContent, result>>
       ELSE \* the loop ends, or breaks for want of research
            /\ Return(iterations)
            /\ UNCHANGED <<currentContent, llm>>
  /\ UNCHANGED <<maxIterations, minScore, research, iterations, currentRating,
                 i, decision>>
  /\ UNCHANGED <<postVars, envVars, runVars, auxVars>>

\* const decision = await this.decideContinueIteration(...)
decideContinueIteration ==
  /\ rpc = "decide"
  /\ \E reply \in JudgeReplies :
       /\ decision' = reply
       /\ llm' = LlmCall("judge", IF reply = "error" THEN "transient" ELSE "none")
       /\ IF ShouldContinue(reply, i, maxIterations)
         THEN /\ i' = i + 1
              /\ rpc' = "loop"
              /\ UNCHANGED result
         ELSE /\ Return(iterations)
              /\ UNCHANGED i
  /\ UNCHANGED <<maxIterations, minScore, research, iterations, currentContent,
                 currentRating>>
  /\ UNCHANGED <<postVars, envVars, runVars, auxVars>>

NextRefine ==
  \/ generateContent
  \/ rateContent
  \/ improveContent
  \/ decideContinueIteration

SpecRefine == InitRefine /\ [][NextRefine]_vars

Next ==
  \/ NextDay
  \/ processAllPosts
  \/ processProjectPosts
  \/ markPostProcessing
  \/ generatePostContent
  \/ enhanceContentWithImages
  \/ savePostContent
  \/ deletePostIterations
  \/ savePostIteration
  \/ dryRunUpdate
  \/ getAdapter
  \/ publish
  \/ markPostPublished
  \/ getPostById
  \/ markPostFailed
  \/ nextPost

Spec == Init /\ [][Next]_vars

\* the scheduler starts a run every day and every awaited call of a run
\* returns or throws: no step of the orchestrator is put off forever
FairSpec == Spec /\ WF_vars(Next)

TypeOK ==
  /\ status \in [Posts -> {"pending", "processing", "published", "failed"}]
  /\ retryCount \in [Posts -> 0..(MaxCeiling + 1)]
  /\ publishDate \in [Posts -> 0..(MaxCeiling + 1)]

\* ------------------------------------------------------------------------
\* utils/retry.ts: retryWithBackoff
\* ------------------------------------------------------------------------
\* DEFAULT_RETRY_CONFIG.maxRetries
DEFAULT_MAX_RETRIES == 3

\* DEFAULT_RETRY_CONFIG.initialDelayMs
INITIAL_DELAY_MS == 1000

\* DEFAULT_RETRY_CONFIG.maxDelayMs
MAX_DELAY_MS == 30000

\* DEFAULT_RETRY_CONFIG.backoffMultiplier
BACKOFF_MULTIPLIER == 2

\* config.maxRetries values the calls are followed for
MaxRetriesInput == 6

\* a message as the list of its pieces: a digit is a piece of its own, a word
\* is one piece
Msg401 == <<"4", "0", "1">>
Msg403 == <<"4", "0", "3">>
Msg400 == <<"4", "0", "0">>
Msg404 == <<"4", "0", "4">>
Msg429 == <<"4", "2", "9">>
Msg503 == <<"5", "0", "3">>
Msg504 == <<"5", "0", "4">>

\* values an operation throws: cls is what the failure is (network, timeout,
\* rateLimit, server5xx, auth, client4xx, other; nonError for a thrown value
\* that is not an Error), msg is error.message (String(error) for a nonError)
SampleErrors ==
  { [cls |-> "network",   msg |-> <<"connect", "ECONNREFUSED">>],
    [cls |-> "timeout",   msg |-> <<"connect", "ETIMEDOUT", "host", ":", "4", "0", "1">>],
    [cls |-> "timeout",   msg |-> <<"timeout", "of", "4", "0", "0", "0", "ms", "exceeded">>],
    [cls |-> "rateLimit", msg |-> <<"4", "2", "9", "Too", "Many", "Requests">>],
    [cls |-> "server5xx", msg |-> <<"status", "code", "5", "0", "3">>],
    [cls |-> "server5xx", msg |-> <<"status", "code", "5", "0", "0">>],
    [cls |-> "auth",      msg |-> <<"4", "0", "1", "Incorrect", "API", "key">>],
    [cls |-> "client4xx", msg |-> <<"status", "code", "4", "0", "4">>],
    [cls |-> "client4xx", msg |-> <<"status", "code", "4", "2", "2">>],
    [cls |-> "other",     msg |-> <<"Unexpected", "token">>],
    [cls |-> "nonError",  msg |-> <<"boom">>] }

\* String.prototype.includes
Includes(msg, pat) ==
  \E k \in 0..(Len(msg) - Len(pat)) : SubSeq(msg, k + 1, k + Len(pat)) = pat

\* a verdict that depends on the attempt: retryable on the first attempt only
IsRetryableErrorOnFirstAttempt(error) == attempt = 0

\* isRetryableError(error)
IsRetryableError(error) ==
  IF error.cls = "nonError" THEN TRUE
  ELSE IF Includes(error.msg, <<"ECONNREFUSED">>) \/ Includes(error.msg, <<"ETIMEDOUT">>)
    THEN TRUE
  ELSE IF Includes(error.msg, <<"rate limit">>) \/ Includes(error.msg, Msg429)
    THEN TRUE
  ELSE IF Includes(error.msg, Msg503) \/ Includes(error.msg, Msg504)
    THEN TRUE
  ELSE IF \/ Includes(error.msg, Msg401) \/ Includes(error.msg, Msg403)
          \/ Includes(error.msg, <<"authentication">>)
          \/ Includes(error.msg, <<"unauthorized">>)
    THEN FALSE
  ELSE IF Includes(error.msg, Msg400) \/ Includes(error.msg, Msg404)
    THEN FALSE
  ELSE TRUE

RECURSIVE Power(_, _)
Power(b, n) == IF n = 0 THEN 1 ELSE b * Power(b, n - 1)

\* calculateDelay(attempt, config)
CalculateDelay(att) ==
  Min(INITIAL_DELAY_MS * Power(BACKOFF_MULTIPLIER, att), MAX_DELAY_MS)

\* for (...; attempt <= fullConfig.maxRetries; ...)
LoopContinues(att, max) == att <= max

\* the catch block without the test of the verdict
AfterFailureAlwaysSleep(att, max, retryable) ==
  IF att = max THEN "exhausted" ELSE "sleep"

\* the catch block: break on the last attempt, rethrow a non-retryable
\* error, sleep otherwise
AfterFailure(att, max, retryable) ==
  IF att = max THEN "exhausted"
  ELSE IF ~retryable THEN "rethrow"
  ELSE "sleep"

\* the wrapped error carrying the number of retries, not of attempts
ExhaustedCountingRetries(max, error) ==
  [cls |-> "wrapped", attempts |-> max, msg |-> error.msg]

\* throw new Error(`${context} failed after ${maxRetries + 1} attempts: ${message}`)
Exhausted(max, error) ==
  [cls |-> "wrapped", attempts |-> max + 1, msg |-> error.msg]

\* throw error
Rethrown(error) == [cls |-> error.cls, attempts |-> 0, msg |-> error.msg]

\* retryWithBackoff(fn, config) is called
InitRetry ==
  /\ fullConfig \in {[maxRetries |-> m] : m \in 0..MaxRetriesInput}
  /\ attempt = 0
  /\ fnCalls = 0
  /\ delays = <<>>
  /\ lastError = NoError
  /\ rst = "call"
  /\ raised = NoError
  /\ verdicts = {}
  /\ RefineIdle
  /\ RegistryIdle
  /\ SchedulerIdle
  /\ ResearchIdle
  /\ PipelineIdle

\* return await fn(), and the catch block up to the sleep or the throw
attemptOperation ==
  /\ rst = "call"
  /\ fnCalls' = fnCalls + 1
  /\ \/ \* fn resolves
        /\ rst' = "returned"
        /\ UNCHANGED <<lastError, raised, verdicts, delays>>
     \/ \E error \in SampleErrors :
          /\ lastError' = error
          /\ LET next == AfterFailure(attempt, fullConfig.maxRetries,
                                      IsRetryableError(error))
             IN /\ verdicts' = IF next = "exhausted" THEN verdicts
                               ELSE verdicts \cup {<<error, IsRetryableError(error)>>}
                /\ rst' = IF next = "sleep" THEN "sleep" ELSE "threw"
                /\ raised' = IF next = "exhausted"
                               THEN Exhausted(fullConfig.maxRetries, error)
                             ELSE IF next = "rethrow" THEN Rethrown(error)
                             ELSE raised
                /\ delays' = IF next = "sleep"
                               THEN Append(delays, CalculateDelay(attempt))
                               ELSE delays
  /\ UNCHANGED <<fullConfig, attempt>>
  /\ UNCHANGED <<postVars, envVars, runVars, refineVars, researchVars, registryVars, schedulerVars>>

\* await sleep(delay) is over: attempt++ and the loop test
sleep ==
  /\ rst = "sleep"
  /\ attempt' = attempt + 1
  /\ IF LoopContinues(attempt + 1, fullConfig.maxRetries)
       THEN /\ rst' = "call"
            /\ UNCHANGED raised
       ELSE /\ rst' = "threw"
            /\ raised' = Exhausted(fullConfig.maxRetries, lastError)
  /\ UNCHANGED <<fullConfig, fnCalls, delays, lastError, verdicts>>
  /\ UNCHANGED <<postVars, envVars, runVars, refineVars, researchVars, registryVars, schedulerVars>>

NextRetry ==
  \/ attemptOperation
  \/ sleep

SpecRetry == InitRetry /\ [][NextRetry]_vars

\* the event loop runs every continuation that is ready
FairSpecRetry == SpecRetry /\ WF_vars(NextRetry)

\* ------------------------------------------------------------------------
\* AdapterRegistry
\* ------------------------------------------------------------------------
MaxCreated == 3
MaxHanded == 3
MaxClears == 1

\* platform types with an adapter file (<platformType>.adapter.js)
InstalledPlatforms == { <<"wordpress">>, <<"custom", "-", "backend">> }

\* project configurations: (platform_type, id); project u1 is also seen with
\* its platform_type set to a platform that has no adapter
Configs ==
  { [platformType |-> <<"wordpress">>, id |-> <<"u1">>],
    [platformType |-> <<"custom", "-", "backend">>, id |-> <<"u2">>],
    [platformType |-> <<"unknown", "-", "platform">>, id |-> <<"u1">>] }

\* a cache key made of the project id alone
CacheKeyByProject(platformType, id) == id

\* const cacheKey = `${platformType}-${config.id}`
CacheKey(platformType, id) == platformType \o <<"-">> \o id

\* this.adapters.has(cacheKey)
Has(cache, key) == \E e \in cache : e[1] = key

\* this.adapters.get(cacheKey)
Get(cache, key) == (CHOOSE e \in cache : e[1] = key)[2]

\* this.adapters.delete(cacheKey)
Delete(cache, key) == {e \in cache : e[1] # key}

\* this.adapters.set(cacheKey, adapter)
Set(cache, key, inst) == Delete(cache, key) \cup {<<key, inst>>}

\* a getAdapter that caches the adapter whether authenticate() resolved or not
CacheBeforeAuthenticate(cache, key, inst, resolved) == Set(cache, key, inst)

\* await adapter.authenticate(); this.adapters.set(cacheKey, adapter): the
\* set is reached only when authenticate() resolved
CacheAfterAuthenticate(cache, key, inst, resolved) ==
  IF resolved THEN Set(cache, key, inst) ELSE cache

\* loadAdapter, catch: `Failed to load adapter for platform type "${platformType}": ...`
LoadError(platformType) ==
  <<"Failed to load adapter for platform type">> \o platformType

\* an authenticate() that rejects
AuthError == <<"Authentication failed">>

\* what getAdapter hands to its caller
Handed(c, inst) ==
  [caller |-> c, config |-> callers[c].config, inst |-> inst,
   from |-> callers[c].epoch, to |-> clears]

InitRegistry ==
  /\ RegistryIdle
  /\ RefineIdle
  /\ RetryIdle
  /\ SchedulerIdle
  /\ ResearchIdle
  /\ PipelineIdle

\* getAdapter(config) up to its first await: the cached adapter is returned,
\* or loadAdapter starts
getAdapterCall ==
  /\ Len(handed) < MaxHanded
  /\ \E c \in Callers, config \in Configs :
       LET key == CacheKey(config.platformType, config.id) IN
       /\ callers[c].pc = "idle"
       /\ IF Has(adapters, key)
            THEN /\ callers' = [callers EXCEPT ![c] =
                      [NoCaller EXCEPT !.config = config, !.epoch = clears,
                                       !.inst = Get(adapters, key)]]
                 /\ handed' = Append(handed,
                      [caller |-> c, config |-> config, inst |-> Get(adapters, key),
                       from |-> clears, to |-> clears])
            ELSE /\ callers' = [callers EXCEPT ![c] =
                      [NoCaller EXCEPT !.pc = "load", !.config = config,
                                       !.epoch = clears]]
                 /\ UNCHANGED handed
  /\ UNCHANGED <<adapters, created, authCalls, authenticated, clears>>
  /\ UNCHANGED <<postVars, envVars, runVars, refineVars, researchVars, retryVars, schedulerVars>>

\* loadAdapter: await import(adapterPath) and new AdapterClass(config), then
\* the call of adapter.authenticate()
loadAdapter ==
  /\ \E c \in Callers :
       /\ callers[c].pc = "load"
       /\ IF callers[c].config.platformType \in InstalledPlatforms
            THEN /\ Len(created) < MaxCreated
                 /\ created' = Append(created, callers[c].config)
                 /\ authCalls' = Append(authCalls, 1)
                 /\ callers' = [callers EXCEPT ![c].pc = "auth",
                                               ![c].inst = Len(created) + 1]
            ELSE /\ callers' = [callers EXCEPT ![c].pc = "idle",
                      ![c].error = LoadError(callers[c].config.platformType)]
                 /\ UNCHANGED <<created, authCalls>>
  /\ UNCHANGED <<adapters, authenticated, handed, clears>>
  /\ UNCHANGED <<postVars, envVars, runVars, refineVars, researchVars, retryVars, schedulerVars>>

\* await adapter.authenticate() is over: the adapter is cached and returned,
\* or the rejection propagates
authenticate ==
  /\ \E c \in Callers :
       LET key == CacheKey(callers[c].config.platformType, callers[c].config.id)
       IN
       /\ callers[c].pc = "auth"
       /\ \/ /\ authenticated' = authenticated \cup {callers[c].inst}
             /\ adapters' = CacheAfterAuthenticate(adapters, key, callers[c].inst, TRUE)
             /\ handed' = Append(handed, Handed(c, callers[c].inst))
             /\ callers' = [callers EXCEPT ![c].pc = "idle"]
          \/ /\ adapters' = CacheAfterAuthenticate(adapters, key, callers[c].inst, FALSE)
             /\ callers' = [callers EXCEPT ![c].pc = "idle", ![c].error = AuthError]
             /\ UNCHANGED <<authenticated, handed>>
  /\ UNCHANGED <<created, authCalls, clears>>
  /\ UNCHANGED <<postVars, envVars, runVars, refineVars, researchVars, retryVars, schedulerVars>>

\* AdapterRegistry.clearCache()
clearCache ==
  /\ clears < MaxClears
  /\ adapters' = {}
  /\ clears' = clears + 1
  /\ UNCHANGED <<created, authCalls, authenticated, callers, handed>>
  /\ UNCHANGED <<postVars, envVars, runVars, refineVars, researchVars, retryVars, schedulerVars>>

\* AdapterRegistry.removeAdapter(platformType, projectId)
removeAdapter ==
  /\ clears < MaxClears
  /\ \E config \in Configs :
       adapters' = Delete(adapters, CacheKey(config.platformType, config.id))
  /\ clears' = clears + 1
  /\ UNCHANGED <<created, authCalls, authenticated, callers, handed>>
  /\ UNCHANGED <<postVars, envVars, runVars, refineVars, researchVars, retryVars, schedulerVars>>

NextRegistry ==
  \/ getAdapterCall
  \/ loadAdapter
  \/ authenticate
  \/ clearCache
  \/ removeAdapter

SpecRegistry == InitRegistry /\ [][NextRegistry]_vars

\* ------------------------------------------------------------------------
\* view-content.ts: the scheduler. cron.schedule calls runPublishingJob at
\* every tick, whether or not the job of an earlier tick has returned
\* ------------------------------------------------------------------------
InitScheduler ==
  /\ SchedulerIdle
  /\ ResearchIdle
  /\ RefineIdle
  /\ RetryIdle
  /\ RegistryIdle
  /\ PipelineIdle

\* the post a job is working on
jobPost(r) == Head(runs[r].postQueue)

\* a job has marked its post processing and awaits generation or publish
InFlight(r) == runs[r].pc = "pipeline"

\* the for loops of processAllPosts and processProjectPosts move on
JobAdvance(job) ==
  IF Len(job.postQueue) > 1
    THEN [job EXCEPT !.postQueue = Tail(@), !.pc = "post"]
  ELSE IF Len(job.projQueue) > 1
    THEN [job EXCEPT !.postQueue = <<>>, !.projQueue = Tail(@), !.pc = "project"]
  ELSE NoJob

\* a cron tick: runPublishingJob -> processAllPosts(undefined, false)
runPublishingJob ==
  /\ \E r \in Jobs :
       /\ runs[r].pc = "idle"
       /\ runs' = [runs EXCEPT ![r] =
                     [pc |-> "project", projQueue |-> ActiveProjects("all"),
                      postQueue |-> <<>>]]
  /\ UNCHANGED publishCalls
  /\ UNCHANGED <<postVars, envVars, runVars, refineVars, researchVars, retryVars, registryVars>>

\* processProjectPosts of a job: getPendingPosts(project.id)
jobGetPendingPosts ==
  /\ \E r \in Jobs :
       /\ runs[r].pc = "project"
       /\ \E q \in PendingLists(Head(runs[r].projQueue)) :
            runs' = [runs EXCEPT ![r] =
                       IF q = <<>>
                         THEN JobAdvance(runs[r])
                         ELSE [@ EXCEPT !.postQueue = q, !.pc = "post"]]
  /\ UNCHANGED publishCalls
  /\ UNCHANGED <<postVars, envVars, runVars, refineVars, researchVars, retryVars, registryVars>>

\* processPost of a job: markPostProcessing(post.id), an update by id alone
jobMarkProcessing ==
  /\ \E r \in Jobs :
       /\ runs[r].pc = "post"
       /\ status' = [status EXCEPT ![jobPost(r)] = "processing"]
       /\ runs' = [runs EXCEPT ![r].pc = "pipeline"]
  /\ UNCHANGED <<retryCount, maxRetries, publishDate, errorMessage, publishedUrl,
                 savedContent, savedIterations, publishCalls>>
  /\ UNCHANGED <<envVars, runVars, refineVars, researchVars, retryVars, registryVars>>

\* processPost of a job: generation, saves and publishContent end, with
\* markPostPublished, or with markPostFailed in the catch block
jobFinishPost ==
  /\ \E r \in Jobs :
       LET p == jobPost(r) IN
       /\ runs[r].pc = "pipeline"
       /\ runs' = [runs EXCEPT ![r] = JobAdvance(runs[r])]
       /\ \/ \* adapter.publish succeeded
             /\ publishCalls' = [publishCalls EXCEPT ![p] = @ + 1]
             /\ status' = [status EXCEPT ![p] = "published"]
             /\ publishedUrl' = [publishedUrl EXCEPT ![p] = "url"]
             /\ savedContent' = [savedContent EXCEPT ![p] = "content"]
             /\ UNCHANGED <<retryCount, publishDate, errorMessage>>
          \/ \* generation failed
             \E e \in GenerationErrors :
               LET newRetryCount == retryCount[p] + 1
                   shouldRetry == ShouldRetry(newRetryCount, maxRetries[p])
               IN /\ status' = [status EXCEPT ![p] =
                                  IF shouldRetry THEN "pending" ELSE "failed"]
                  /\ retryCount' = [retryCount EXCEPT ![p] = newRetryCount]
                  /\ errorMessage' = [errorMessage EXCEPT ![p] = e.msg]
                  /\ publishDate' = [publishDate EXCEPT ![p] =
                        IF shouldRetry THEN NextPublishDate(zone, publishDate[p])
                        ELSE @]
                  /\ UNCHANGED <<publishedUrl, savedContent, publishCalls>>
  /\ UNCHANGED <<maxRetries, savedIterations>>
  /\ UNCHANGED <<envVars, runVars, refineVars, researchVars, retryVars, registryVars>>

NextScheduler ==
  \/ runPublishingJob
  \/ jobGetPendingPosts
  \/ jobMarkProcessing
  \/ jobFinishPost

SpecScheduler == InitScheduler /\ [][NextScheduler]_vars

\* ------------------------------------------------------------------------
\* WorkflowService.performResearch over ResearchService.search
\* ------------------------------------------------------------------------
MaxQueries == 4
MaxOrganic == 2

\* links a search response can carry
Urls == {"u1", "u2"}

\* organic_results of a response: its links, in the order of the page
OrganicLists ==
  UNION {{q \in [1..n -> Urls] : \A j, k \in 1..n : j # k => q[j] # q[k]} :
           n \in 0..MaxOrganic}

\* a SerpAPI response: the organic results, and the link of the answer box
\* ("none" when the response has no answer box)
Responses == [organic_results : OrganicLists, answer_box : {"none"} \cup Urls]

\* parseResults: the organic results in order, then results.unshift(...) of
\* the answer box
ParseResults(response) ==
  (IF response.answer_box # "none" THEN <<response.answer_box>> ELSE <<>>)
  \o response.organic_results

\* new Set(primary.results.map((r) => r.url))
UrlsSeen(results) == {results[k] : k \in 1..Len(results)}

\* mergeResearch(primary, additional)
MergeResearch(primary, additional) ==
  LET urlsSeen == UrlsSeen(primary.results)
      uniqueAdditional ==
        SelectSeq(additional.results, LAMBDA u : u \notin urlsSeen)
  IN [query |-> primary.query \o additional.query,
      results |-> primary.results \o uniqueAdditional]

\* performResearch(post) is called
InitResearch ==
  /\ rsPc = "plan"
  /\ researchPlan = <<>>
  /\ qIdx = 0
  /\ allResults = <<>>
  /\ mergeIdx = 0
  /\ mergedResearch = NoResearch
  /\ RefineIdle
  /\ RetryIdle
  /\ RegistryIdle
  /\ runs = [r \in Jobs |-> NoJob]
  /\ publishCalls = [p \in Posts |-> 0]
  /\ PipelineIdle

\* const researchPlan = await this.contentService.planResearchStrategy(...):
\* the planned queries, or the single query of the fallback
planResearchStrategy ==
  /\ rsPc = "plan"
  /\ \E n \in 1..MaxQueries : researchPlan' = [k \in 1..n |-> k]
  /\ qIdx' = 1
  /\ rsPc' = "search"
  /\ UNCHANGED <<allResults, mergeIdx, mergedResearch>>
  /\ UNCHANGED <<postVars, envVars, runVars, refineVars, retryVars, registryVars,
                 schedulerVars>>

\* one round of the for loop over researchPlan.queries
search ==
  /\ rsPc = "search"
  /\ \/ \E response \in Responses :
          allResults' = Append(allResults,
                               [query |-> <<researchPlan[qIdx]>>,
                                results |-> ParseResults(response)])
     \/ \* the query fails: logged, the loop goes on
        UNCHANGED allResults
  /\ qIdx' = qIdx + 1
  /\ rsPc' = IF qIdx < Len(researchPlan) THEN "search" ELSE "collect"
  /\ UNCHANGED <<researchPlan, mergeIdx, mergedResearch>>
  /\ UNCHANGED <<postVars, envVars, runVars, refineVars, retryVars, registryVars,
                 schedulerVars>>

\* if (allResults.length === 0) throw ...; let mergedResearch = allResults[0]
collectResults ==
  /\ rsPc = "collect"
  /\ IF allResults = <<>>
       THEN /\ rsPc' = "failed"
            /\ UNCHANGED <<mergeIdx, mergedResearch>>
       ELSE /\ mergedResearch' = allResults[1]
            /\ mergeIdx' = 2
            /\ rsPc' = "merge"
  /\ UNCHANGED <<researchPlan, qIdx, allResults>>
  /\ UNCHANGED <<postVars, envVars, runVars, refineVars, retryVars, registryVars,
                 schedulerVars>>

\* for (let i = 1; i < allResults.length; i++) mergedResearch =
\* this.mergeResearch(mergedResearch, allResults[i]); return mergedResearch
mergeResearch ==
  /\ rsPc = "merge"
  /\ IF mergeIdx <= Len(allResults)
       THEN /\ mergedResearch' = MergeResearch(mergedResearch, allResults[mergeIdx])
            /\ mergeIdx' = mergeIdx + 1
            /\ UNCHANGED rsPc
       ELSE /\ rsPc' = "returned"
            /\ UNCHANGED <<mergeIdx, mergedResearch>>
  /\ UNCHANGED <<researchPlan, qIdx, allResults>>
  /\ UNCHANGED <<postVars, envVars, runVars, refineVars, retryVars, registryVars,
                 schedulerVars>>

NextResearch ==
  \/ planResearchStrategy
  \/ search
  \/ collectResults
  \/ mergeResearch

SpecResearch == InitResearch /\ [][NextResearch]_vars

\* ------------------------------------------------------------------------
\* Properties
\* ------------------------------------------------------------------------
BecomesFailed(p) == status[p] # "failed" /\ status'[p] = "failed"

\* C1 (as stated): in the step in which a post's status becomes failed, its
\* retryCount equals its retry ceiling, or the error of the attempt was Fatal.
C1_FailedAtCeilingOrFatal ==
  [][\A p \in Posts :
       BecomesFailed(p) => retryCount'[p] = maxRetries[p] \/ err.kind = "fatal"]_vars

\* C1 (amended): in the step in which a post's status becomes failed, its
\* retryCount equals max(1, ceiling) (the ceiling when it is 1 or more, and 1
\* when it is 0), or the error of the attempt was Fatal.
C1_FailedAtCeilingAtLeastOne ==
  [][\A p \in Posts :
       BecomesFailed(p) =>
         retryCount'[p] = Max(1, maxRetries[p]) \/ err.kind = "fatal"]_vars

\* a post with ceiling 2 has just failed, on the second of two attempts that
\* failed with a transient error
C1_Witness ==
  /\ pc = "done"
  /\ err.kind = "transient"
  /\ pre.retryCount = 1
  /\ status[cur] = "failed" /\ maxRetries[cur] = 2 /\ retryCount[cur] = 2

StatusEdges ==
  { <<"pending", "processing">>, <<"processing", "published">>,
    <<"processing", "pending">>, <<"processing", "failed">> }

\* C2: a post's status changes only along pending -> processing, processing ->
\* published, processing -> pending and processing -> failed, and once a post
\* is published or failed no step changes its status, retryCount or date.
C2_StatusMachine ==
  [][\A p \in Posts :
       /\ status'[p] # status[p] => <<status[p], status'[p]>> \in StatusEdges
       /\ status[p] \in {"published", "failed"} =>
            /\ status'[p] = status[p]
            /\ retryCount'[p] = retryCount[p]
            /\ publishDate'[p] = publishDate[p]]_vars

\* C3: an attempt that failed with a transient error while retries remained
\* (r + 1 < c), and whose failure was recorded, leaves the post pending with
\* retryCount r + 1, its date exactly one day later and the message stored.
C3_TransientReschedules ==
  (pc = "done" /\ ~thrown /\ err.kind = "transient"
     /\ pre.retryCount + 1 < maxRetries[cur])
  => /\ status[cur] = "pending"
     /\ retryCount[cur] = pre.retryCount + 1
     /\ publishDate[cur] = pre.publishDate + 1
     /\ errorMessage[cur] = err.msg

\* C4: an attempt that failed with a Fatal error, and whose failure was
\* recorded, leaves the post failed with the message stored, whatever number
\* of retries remained.
C4_FatalFailsAtOnce ==
  (pc = "done" /\ ~thrown /\ err.kind = "fatal")
  => /\ status[cur] = "failed"
     /\ errorMessage[cur] = err.msg

Numbered(its) == \A k \in 1..Len(its) : its[k].iteration_number = k

\* C5: the iteration list is numbered 1, 2, ..., N at every moment, a returned
\* list has N >= 1, and a step only ever appends to the list.
C5_ContiguousAppendOnly ==
  /\ [](Numbered(iterations)
        /\ (rpc = "returned" =>
              Len(result.iterations) >= 1 /\ Numbered(result.iterations)))
  /\ [][/\ Len(iterations') >= Len(iterations)
        /\ SubSeq(iterations', 1, Len(iterations)) = iterations]_vars

\* a run returned three records
C5_Witness == rpc = "returned" /\ Len(result.iterations) = 3

\* C6 (as stated): a run records at most min(maxIterations, safety limit)
\* iterations.
C6_AtMostMinOfBudgets ==
  Len(iterations) <= Min(maxIterations, MAX_SAFETY_ITERATIONS)

\* C6 (amended): a run records at most max(1, min(maxIterations, safety
\* limit)) iterations: iteration 1 is always recorded.
C6_AtMostBudgetOrOne ==
  Len(iterations) <= Max(1, Min(maxIterations, MAX_SAFETY_ITERATIONS))

\* a run with maxIterations above the safety limit returned with as many
\* records as the safety limit allows
C6_Witness ==
  /\ rpc = "returned"
  /\ maxIterations > MAX_SAFETY_ITERATIONS
  /\ Len(iterations) = MAX_SAFETY_ITERATIONS

Scores(its) == [k \in 1..Len(its) |-> its[k].score]

\* C7: no record follows a record whose score met the target, and the run has
\* returned as soon as the last record meets it; so a first score at target
\* gives exactly one record.
C7_StopsAtTarget ==
  /\ \A k \in 1..Len(iterations) :
       iterations[k].score >= minScore => k = Len(iterations) /\ rpc = "returned"
  /\ (rpc = "returned" /\ iterations[1].score >= minScore)
       => Len(result.iterations) = 1

\* scores 5, 6, 7, 8 with target 8 and maxIterations 4: four records returned
C7_Witness ==
  /\ rpc = "returned"
  /\ minScore = 8
  /\ maxIterations = 4
  /\ Scores(result.iterations) = <<5, 6, 7, 8>>

\* C8: when the judgment answers stop after iteration i, the run has returned
\* with exactly i records, the last of them below target.
C8_StopEndsRun ==
  decision = "stop"
  => /\ rpc = "returned"
     /\ Len(result.iterations) = i
     /\ iterations = result.iterations
     /\ iterations[i].score < minScore

\* scores always 5, maxIterations 4, stop after iteration 3: three records
C8_Witness ==
  /\ decision = "stop"
  /\ maxIterations = 4
  /\ Scores(result.iterations) = <<5, 5, 5>>

\* C9: the content a run returns is the content of the record with the
\* highest iteration number.
C9_ReturnsLastRecord ==
  rpc = "returned"
  => /\ result.iterations = iterations
     /\ result.content = iterations[Len(iterations)].content

\* a run returned below target, with a last record that scored lower than the
\* first and holds another content
C9_Witness ==
  /\ rpc = "returned"
  /\ Len(iterations) = 3
  /\ iterations[3].score < iterations[1].score
  /\ iterations[3].content # iterations[1].content
  /\ result.content = iterations[3].content

\* an improvement round is due: iteration 1 scored below target and the loop
\* admits iteration 2
RoundDue ==
  /\ Len(iterations) >= 1
  /\ iterations[1].score < minScore
  /\ LoopLimit(maxIterations) >= 2

C11_RunFailsAfterRetries ==
  rpc = "threw" => llm.kind = "fatal" \/ llm.calls = DEFAULT_MAX_RETRIES + 1

RetryOver == rst \in {"returned", "threw"}

\* C14: retryWithBackoff calls the operation at most maxRetries + 1 times and
\* always terminates; it returns at the first success without a further call;
\* when every attempt failed with a retryable error it has made exactly
\* maxRetries + 1 calls and raises the wrapped error with that attempt count
\* and the last failure's message.
C14_AtMostMaxRetriesPlusOne ==
  /\ [](/\ fnCalls <= fullConfig.maxRetries + 1
        /\ rst = "returned" => fnCalls = attempt + 1 /\ Len(delays) = attempt
        /\ (rst = "threw" /\ IsRetryableError(lastError)) =>
             /\ fnCalls = fullConfig.maxRetries + 1
             /\ raised = [cls |-> "wrapped",
                          attempts |-> fullConfig.maxRetries + 1,
                          msg |-> lastError.msg])
  /\ [][RetryOver => fnCalls' = fnCalls]_vars
  /\ <>RetryOver

\* four calls with maxRetries 3 all failed with a retryable error
C14_Witness ==
  /\ rst = "threw"
  /\ fullConfig.maxRetries = 3
  /\ fnCalls = 4
  /\ Len(delays) = 3
  /\ IsRetryableError(lastError)
  /\ raised.cls = "wrapped"

\* C15: a failure classified non-retryable ends the call at once: no further
\* call of the operation, no backoff delay after it, and the error is raised
\* to the caller, whatever number of retries remain.
C15_FatalAbortsAtOnce ==
  (lastError # NoError /\ ~IsRetryableError(lastError))
  => /\ rst = "threw"
     /\ fnCalls = attempt + 1
     /\ Len(delays) = attempt
     /\ raised.msg = lastError.msg

\* the second attempt failed with an authentication error while two retries
\* remained
C15_Witness ==
  /\ rst = "threw"
  /\ fullConfig.maxRetries = 3
  /\ attempt = 1
  /\ lastError.cls = "auth"
  /\ raised = Rethrown(lastError)

\* the classification table of the Retry Policy
TableKind(cls) ==
  IF cls \in {"auth", "client4xx"} THEN "Fatal" ELSE "Transient"

KindOf(retryable) == IF retryable THEN "Transient" ELSE "Fatal"

\* C16: every error the classifier has classified got the kind of the table:
\* network, timeout, rate-limit and 5xx errors Transient, authentication and
\* other 4xx errors Fatal, every other error Transient.
C16_ClassifierMatchesTable ==
  \A v \in verdicts : KindOf(v[2]) = TableKind(v[1].cls)

SameCall(h, g) == h.config = g.config

\* C12: two getAdapter calls with the same (platformType, project id) and no
\* clearCache or removeAdapter from the start of the one to the return of the
\* other were handed the identical instance, on which authenticate() was
\* called once.
C12_SameKeySameInstance ==
  \A j, k \in 1..Len(handed) :
    (/\ j < k
     /\ SameCall(handed[j], handed[k])
     /\ handed[j].from = handed[k].to
     /\ handed[k].from = handed[k].to)
    => /\ handed[j].inst = handed[k].inst
       /\ authCalls[handed[j].inst] = 1

Unresolved(config) == config # <<>> /\ config.platformType \notin InstalledPlatforms

\* C13: a getAdapter call for a platform type without an adapter ends with
\* the error that names the platform type, is handed no adapter, and the step
\* in which it fails changes neither the cache nor what was handed out; every
\* adapter handed out was constructed for the platform type asked for.
C13_UnresolvedPlatformRaises ==
  /\ [](/\ \A c \in Callers :
             Unresolved(callers[c].config) =>
               /\ callers[c].inst = 0
               /\ callers[c].pc = "idle" =>
                    /\ callers[c].error = LoadError(callers[c].config.platformType)
                    /\ Includes(callers[c].error, callers[c].config.platformType)
        /\ \A k \in 1..Len(handed) :
             /\ ~Unresolved(handed[k].config)
             /\ created[handed[k].inst].platformType = handed[k].config.platformType)
  /\ [][\A c \in Callers :
          (Unresolved(callers[c].config) /\ callers[c].pc = "load"
             /\ callers'[c].pc = "idle")
          => adapters' = adapters /\ handed' = handed /\ created' = created]_vars

\* project u1 has a cached wordpress adapter, and a call for u1 with the
\* unknown platform type has failed
C13_Witness ==
  /\ Has(adapters, CacheKey(<<"wordpress">>, <<"u1">>))
  /\ \E c \in Callers :
       /\ callers[c].pc = "idle"
       /\ callers[c].config = [platformType |-> <<"unknown", "-", "platform">>,
                               id |-> <<"u1">>]
       /\ callers[c].error = LoadError(<<"unknown", "-", "platform">>)

\* C18: at most one of the posts the running orchestrator run has marked
\* processing is in status processing at any moment.
C18_OneProcessingPerRun ==
  Cardinality({p \in marked : status[p] = "processing"}) <= 1

PublishSteps == {"getAdapter", "publish", "markPublished"}

AttemptUnchanged ==
  /\ status[cur] = "pending"
  /\ retryCount[cur] = pre.retryCount
  /\ publishDate[cur] = pre.publishDate
  /\ publishedUrl[cur] = pre.publishedUrl

C19_OneExecutionPerItem ==
  /\ \A r, q \in Jobs :
       (r # q /\ InFlight(r) /\ InFlight(q)) => jobPost(r) # jobPost(q)
  /\ \A p \in Posts : publishCalls[p] <= 1

Invalid(c) == c.title = "" \/ c.words < MinWords \/ ~c.heading \/ c.tags = 0

ValidationFailed == gen # NoGen /\ Invalid(gen.draft)

RECURSIVE Flatten(_)
Flatten(lists) ==
  IF lists = <<>> THEN <<>> ELSE Head(lists).results \o Flatten(Tail(lists))

FirstIndex(seq, u) ==
  CHOOSE k \in 1..Len(seq) : seq[k] = u /\ \A j \in 1..(k - 1) : seq[j] # u

\* C23: the merged result of a research step that returned holds every URL
\* of the per-query results, each at most once, in the order of their first
\* occurrence over the queries in the order they were run.
C23_MergedUrlsUnique ==
  rsPc = "returned" =>
    LET merged == mergedResearch.results
        all == Flatten(allResults)
    IN /\ \A j, k \in 1..Len(merged) : j # k => merged[j] # merged[k]
       /\ UrlsSeen(merged) = UrlsSeen(all)
       /\ \A j, k \in 1..Len(merged) :
            j < k => FirstIndex(all, merged[j]) <= FirstIndex(all, merged[k])

PersistenceDone ==
  \/ pc \in {"dryRun", "getAdapter", "publish", "markPublished"}
  \/ pc = "done" /\ err = NoErr

\* C22: once the saves of an attempt have completed without raising, the
\* stored iteration history of the post is the list 1..N of the records of
\* the current refinement run, whatever earlier attempts had stored, and no
\* later step of the attempt changes it.
C22_HistoryReplaced ==
  /\ [](PersistenceDone => savedIterations[cur] = [k \in 1..gen.n |-> k])
  /\ [][pc \notin {"deleteIterations", "saveIteration"} =>
          savedIterations' = savedIterations]_vars

\* an attempt with one iteration record, on a post for which an earlier
\* attempt had stored two, has completed its saves
C22_Witness ==
  /\ pc = "getAdapter"
  /\ pre.iterations = <<1, 2>>
  /\ gen.n = 1
  /\ savedIterations[cur] = <<1>>

\* C24: a post whose publish call has returned success is never pending
\* again, and no post's publish call returns success twice.
C24_PublishedOnceAndStays ==
  \A p \in Posts :
    /\ publishCalls[p] <= 1
    /\ publishCalls[p] >= 1 => status[p] # "pending"

\* C25: when no orchestrator run is in progress, no post that the last run
\* marked processing is in status processing.
C25_NoProcessingAfterRun ==
  pc = "idle" => \A p \in marked : status[p] # "processing"

\* C27: the step that ends an attempt, failed or not, goes on to the next
\* post of the fetched due list while one remains, and to the next project
\* while one remains: no failure keeps the run from picking up the rest.
C27_RemainingItemsPickedUp ==
  [][(pc = "done" /\ pc' # "done") =>
       /\ Tail(postQueue) # <<>> =>
            pc' = "post" /\ postQueue' = Tail(postQueue)
       /\ Tail(projQueue) # <<>> => pc' \in {"post", "project"}]_vars

\* C28: every cached adapter and every adapter handed to a caller has
\* completed authenticate(); a getAdapter call whose authenticate() raises
\* ends with that error, caches nothing and hands nothing out; and a call
\* that finds no cached adapter constructs a new instance and calls its
\* authenticate() once.
C28_CachedAdaptersAuthenticated ==
  /\ [](/\ \A e \in adapters : e[2] \in authenticated
        /\ \A k \in 1..Len(handed) : handed[k].inst \in authenticated)
  /\ [][\A c \in Callers :
          /\ (callers[c].pc = "auth" /\ callers'[c].pc = "idle"
                /\ callers[c].inst \notin authenticated')
             => /\ callers'[c].error = AuthError
                /\ adapters' = adapters
                /\ handed' = handed
          /\ (callers[c].pc = "load" /\ callers'[c].pc = "auth")
             => /\ callers'[c].inst = Len(created) + 1
                /\ Len(created') = Len(created) + 1
                /\ authCalls'[callers'[c].inst] = 1]_vars

\* a call for project u1's wordpress adapter failed in authenticate() with
\* instance 1; the next call for the same key constructed instance 2, which
\* authenticated and is the cached adapter
C28_Witness ==
  /\ callers[1].pc = "idle"
  /\ callers[1].error = AuthError
  /\ callers[1].inst = 1
  /\ callers[2].pc = "idle"
  /\ callers[2].config = callers[1].config
  /\ callers[2].inst = 2
  /\ authenticated = {2}
  /\ adapters = {<<CacheKey(<<"wordpress">>, <<"u1">>), 2>>}
  /\ handed = <<[caller |-> 2, config |-> callers[2].config, inst |-> 2,
                 from |-> 0, to |-> 0]>>

\* C29: while the cache has not been cleared, no two adapters constructed for
\* one (platformType, project id) have both been authenticated, and the
\* cached adapter of a key is the instance that was handed to every caller
\* for that key since the last clearing.
C29_OverlappingCallsShareInstance ==
  /\ clears = 0 =>
       \A j, k \in authenticated : j # k => created[j] # created[k]
  /\ \A k \in 1..Len(handed) :
       LET key == CacheKey(handed[k].config.platformType, handed[k].config.id)
       IN (handed[k].to = clears /\ Has(adapters, key))
            => Get(adapters, key) = handed[k].inst

RatingFails == rpc = "rate" /\ llm'.op = "rate" /\ llm'.kind # "none"

\* C30: a step in which the rating call fails does not end the run with an
\* error: it records the iteration being rated with score 6, and goes on as
\* a rating of 6 does: the run returns with that record last when the target
\* is 6 or less, and otherwise goes to the next round (after iteration 1) or
\* to the judgment (after a later iteration).
C30_RatingFailureScoresSix ==
  [][RatingFails =>
       /\ rpc' # "threw"
       /\ iterations' =
            Append(iterations,
                   [iteration_number |-> i, content |-> currentContent, score |-> 6])
       /\ currentRating' = 6
       /\ currentContent' = currentContent
       /\ IF minScore <= 6
            THEN /\ rpc' = "returned"
                 /\ result' = [content |-> currentContent, iterations |-> iterations']
            ELSE /\ rpc' = (IF i = 1 THEN "loop" ELSE "decide")
                 /\ i' = (IF i = 1 THEN 2 ELSE i)
                 /\ result' = result]_vars

\* with target 8, the rating of iteration 2 failed: the record has score 6
\* and the run is at the judgment
C30_Witness ==
  /\ rpc = "decide"
  /\ minScore = 8
  /\ llm = LlmCall("rate", "transient")
  /\ Len(iterations) = 2
  /\ iterations[2].score = 6

AttemptFails == pc \in {"catch", "markFailed"} /\ pc' = "done"

\* C26: in publish mode, with runs that keep being started and calls that
\* keep returning, a post that was marked processing is eventually pending,
\* published or failed again; the step that ends a failed attempt leaves the
\* post's retryCount exactly one above its value before the attempt; no step
\* lowers a retryCount; and a post with ceiling c >= 1 becomes failed in the
\* step that brings its retryCount to c.  (With a run on every day a post is
\* due, these give: published or failed after at most c attempts.)
C26_TerminatesWithinCeiling ==
  /\ \A p \in Posts :
       (status[p] = "processing") ~> (status[p] # "processing")
  /\ [][/\ \A p \in Posts : retryCount'[p] >= retryCount[p]
        /\ (AttemptFails /\ ~dryRun) => retryCount'[cur] = pre.retryCount + 1
        /\ \A p \in Posts :
             (BecomesFailed(p) /\ maxRetries[p] >= 1 /\ ~dryRun)
               => retryCount'[p] = maxRetries[p]]_vars

====
